---- MODULE Spec2Model ----
(***************************************************************************)
(* Depth Perception: the answer-validation, progression and puzzle         *)
(* delivery code of the Next.js API routes, as a state machine over the    *)
(* Postgres tables (users, game_results, user_achievements) and the        *)
(* requests in flight.  One request slot advances by one database round    *)
(* trip (one `await db...`) per step, so concurrent requests interleave    *)
(* exactly where the handlers yield.                                       *)
(***************************************************************************)
EXTENDS Integers, Sequences, FiniteSets, TLC

VARIABLES users,            \* users table: wallet -> [xp]
          gameResults,      \* game_results table, in insertion order
          userAchievements, \* user_achievements table: set of <<user, achievement>>
          clock,            \* the database clock behind defaultNow()
          req,              \* POST /api/game/submit requests, one per slot
          mig,              \* POST /api/game/migrate requests, one per slot
          delivery,         \* last response of GET /api/puzzles/today or /[id]
          xpCall,           \* last call of calculateXp: input and result
          stats,            \* last response of GET /api/stats/me or /leaderboard
          client,           \* one browser: local storage, session, MigrationHandler
          admin,            \* admin puzzle routes: their events table and requests
          board             \* the game board's shuffle of the events it shows

vars == <<users, gameResults, userAchievements, clock, req, mig, delivery, xpCall,
          stats, client, admin, board>>

store == <<users, gameResults, userAchievements>>

(***************************************************************************)
(* Bounds of the model.                                                    *)
(***************************************************************************)
MaxEvents == 5      \* the puzzle store holds one puzzle of each size 1..MaxEvents
MaxSubmits == 2     \* submit requests of one behaviour, all of which may overlap
MaxMigrates == 1    \* migrate requests of one behaviour
MaxStreak == 4      \* largest currentStreak handed to calculateXp

(***************************************************************************)
(* Program constants (src/lib/constants.ts).                               *)
(***************************************************************************)
XP_AWARDS ==
    [win |-> 100, perfectBonus |-> 50, speedBonus |-> 30,
     streakMultiplier |-> 20, dailyChallenge |-> 75]

MAX_HINTS == 3

SPEED_BONUS_THRESHOLD_MS == 30000

SPEED_DEMON_THRESHOLD_MS == 15000

(***************************************************************************)
(* The achievement catalog: id -> xpReward (seed script).                  *)
(***************************************************************************)
ACHIEVEMENTS ==
    [first_win |-> 50, streak_3 |-> 100, streak_7 |-> 250, streak_15 |-> 500,
     no_hints |-> 75, speed_demon |-> 150, daily_5 |-> 200, daily_30 |-> 500,
     games_50 |-> 300, perfect_10 |-> 400]

AchievementIds == DOMAIN ACHIEVEMENTS

(***************************************************************************)
(* The puzzle store.  Ids are uuids in the program; here puzzle p (a       *)
(* number) has p events, even puzzles are daily challenges.  An event id   *)
(* carries no order: the ids of a puzzle are a rotation of its ranks.      *)
(* 0 stands for an absent / non-string puzzleId in a request body.         *)
(***************************************************************************)
PuzzleIds == 1..MaxEvents

UnknownPuzzleId == MaxEvents + 1

UnknownEventId == 0

Undefined == -1     \* JavaScript `undefined` (an array read past the end)

puzzles ==
    [p \in PuzzleIds |->
        [id |-> p, title |-> <<"title", p>>, category |-> "History",
         isDaily |-> (p % 2 = 0),
         dailyDate |-> IF p % 2 = 0 THEN p ELSE 0]]

puzzleEvents ==
    UNION { { [id |-> 10 * p + ((k + 1) % p), puzzleId |-> p,
               text |-> <<"text", p, k>>, date |-> <<"year", k \div 2>>,
               sortDate |-> 100 * p + k, url |-> <<"url", p, k>>,
               orderIndex |-> k] : k \in 0..(p - 1) } : p \in PuzzleIds }

(***************************************************************************)
(* SELECT ... FROM puzzle_events WHERE puzzle_id = p ORDER BY order_index  *)
(* ASC: the rows of the puzzle, smallest orderIndex first.                 *)
(***************************************************************************)
RECURSIVE OrderByOrderIndexAsc(_)
OrderByOrderIndexAsc(rows) ==
    IF rows = {} THEN <<>>
    ELSE LET first == CHOOSE e \in rows : \A f \in rows : e.orderIndex <= f.orderIndex
         IN  <<first>> \o OrderByOrderIndexAsc(rows \ {first})

EventsOfPuzzle(p) == OrderByOrderIndexAsc({e \in puzzleEvents : e.puzzleId = p})

CorrectOrderOf(p) ==
    LET correctEvents == EventsOfPuzzle(p)
    IN  [i \in 1..Len(correctEvents) |-> correctEvents[i].id]

(***************************************************************************)
(* The score: orderedEventIds.reduce((acc, id, i) =>                       *)
(*               id === correctOrder[i] ? acc + 1 : acc, 0).               *)
(* correctOrder[i] is undefined past the end of correctOrder.              *)
(***************************************************************************)
ArrayAt(arr, i) == IF i <= Len(arr) THEN arr[i] ELSE Undefined

RECURSIVE ScoreReduce(_, _, _, _)
ScoreReduce(orderedEventIds, correctOrder, i, acc) ==
    IF i > Len(orderedEventIds) THEN acc
    ELSE ScoreReduce(orderedEventIds, correctOrder, i + 1,
                     IF orderedEventIds[i] = ArrayAt(correctOrder, i)
                     THEN acc + 1 ELSE acc)

ComputeScoreByMembership(orderedEventIds, correctOrder) ==
    Cardinality({i \in 1..Len(orderedEventIds) :
                    \E k \in 1..Len(correctOrder) : orderedEventIds[i] = correctOrder[k]})

ComputeScore(orderedEventIds, correctOrder) ==
    ScoreReduce(orderedEventIds, correctOrder, 1, 0)

ComputeWonAnyMatch(score, correctOrder) == score > 0

ComputeWon(score, correctOrder) == score = Len(correctOrder)

(***************************************************************************)
(* Body validation of POST /api/game/submit: TRUE when one of the four     *)
(* checks answers 400.                                                     *)
(***************************************************************************)
BodyInvalid(body) ==
    \/ body.puzzleId = 0
    \/ Len(body.orderedEventIds) = 0
    \/ body.hintsUsed < 0
    \/ body.solveTimeMs < 0

(***************************************************************************)
(* calculateXp (src/lib/xp.ts): nothing for a loss, else the base award    *)
(* plus each bonus whose condition holds, added one after the other.       *)
(***************************************************************************)
calculateXpStreakFromOne(input) ==
    IF ~input.won THEN 0
    ELSE XP_AWARDS.win
         + (IF input.hintsUsed = 0 THEN XP_AWARDS.perfectBonus ELSE 0)
         + (IF input.solveTimeMs < SPEED_BONUS_THRESHOLD_MS THEN XP_AWARDS.speedBonus ELSE 0)
         + (IF input.currentStreak >= 1
            THEN XP_AWARDS.streakMultiplier * input.currentStreak ELSE 0)
         + (IF input.isDaily THEN XP_AWARDS.dailyChallenge ELSE 0)

calculateXpForLossToo(input) ==
    XP_AWARDS.win
    + (IF input.hintsUsed = 0 THEN XP_AWARDS.perfectBonus ELSE 0)
    + (IF input.solveTimeMs < SPEED_BONUS_THRESHOLD_MS THEN XP_AWARDS.speedBonus ELSE 0)
    + (IF input.currentStreak > 1
       THEN XP_AWARDS.streakMultiplier * input.currentStreak ELSE 0)
    + (IF input.isDaily THEN XP_AWARDS.dailyChallenge ELSE 0)

calculateXp(input) ==
    IF ~input.won THEN 0
    ELSE LET xp0 == XP_AWARDS.win
             xp1 == IF input.hintsUsed = 0 THEN xp0 + XP_AWARDS.perfectBonus ELSE xp0
             xp2 == IF input.solveTimeMs < SPEED_BONUS_THRESHOLD_MS
                    THEN xp1 + XP_AWARDS.speedBonus ELSE xp1
             xp3 == IF input.currentStreak > 1
                    THEN xp2 + XP_AWARDS.streakMultiplier * input.currentStreak ELSE xp2
             xp4 == IF input.isDaily THEN xp3 + XP_AWARDS.dailyChallenge ELSE xp3
         IN  xp4

(***************************************************************************)
(* checkAchievements (src/lib/achievements.ts).  `check` yields the id when *)
(* it is not yet unlocked and its condition holds; the result is the ids   *)
(* pushed by the ten checks (a set: the callers never use their order).    *)
(***************************************************************************)
checkUngated(input, id, condition) ==
    IF condition THEN {id} ELSE {}

check(input, id, condition) ==
    IF id \notin input.alreadyUnlocked /\ condition THEN {id} ELSE {}

checkAchievements(input) ==
    check(input, "first_win", input.won /\ input.totalWins >= 1)
    \cup check(input, "streak_3", input.currentStreak >= 3)
    \cup check(input, "streak_7", input.currentStreak >= 7)
    \cup check(input, "streak_15", input.currentStreak >= 15)
    \cup check(input, "no_hints", input.won /\ input.hintsUsedThisGame = 0)
    \cup check(input, "speed_demon",
               input.won /\ input.solveTimeMsThisGame < SPEED_DEMON_THRESHOLD_MS)
    \cup check(input, "daily_5", input.totalDailies >= 5)
    \cup check(input, "daily_30", input.totalDailies >= 30)
    \cup check(input, "games_50", input.totalGames >= 50)
    \cup check(input, "perfect_10", input.totalPerfectWins >= 10)

(***************************************************************************)
(* SELECT won FROM game_results WHERE user_id = u ORDER BY played_at DESC. *)
(* Rows of equal played_at come back in an order SQL leaves open: `tie`    *)
(* says whether they come in insertion order or in its reverse.            *)
(***************************************************************************)
Reverse(s) == [i \in 1..Len(s) |-> s[Len(s) + 1 - i]]

RECURSIVE OrderByPlayedAtDesc(_, _, _)
OrderByPlayedAtDesc(rows, times, tie) ==
    IF times = {} THEN <<>>
    ELSE LET latest == CHOOSE t \in times : \A u \in times : t >= u
             group == SelectSeq(rows, LAMBDA r : r.playedAt = latest)
         IN  (IF tie = "insertion" THEN group ELSE Reverse(group))
             \o OrderByPlayedAtDesc(rows, times \ {latest}, tie)

ResultsOfUser(userId) == SelectSeq(gameResults, LAMBDA r : r.userId = userId)

AllResultsOf(userId, tie) ==
    LET rows == ResultsOfUser(userId)
        sorted == OrderByPlayedAtDesc(rows, {rows[i].playedAt : i \in 1..Len(rows)}, tie)
    IN  [i \in 1..Len(sorted) |-> sorted[i].won]

(***************************************************************************)
(* The streak loops of the submit route over allResults (newest first).    *)
(***************************************************************************)
RECURSIVE CurrentStreakFrom(_, _)
CurrentStreakFrom(allResults, i) ==
    IF i > Len(allResults) THEN 0
    ELSE IF allResults[i] THEN 1 + CurrentStreakFrom(allResults, i + 1)
    ELSE 0

CurrentStreak(allResults) == CurrentStreakFrom(allResults, 1)

RECURSIVE BestStreakScan(_, _, _, _)
BestStreakScan(chronologicalResults, i, tempStreak, bestStreak) ==
    IF i > Len(chronologicalResults) THEN bestStreak
    ELSE IF chronologicalResults[i]
         THEN BestStreakScan(chronologicalResults, i + 1, tempStreak + 1,
                             IF tempStreak + 1 > bestStreak THEN tempStreak + 1
                             ELSE bestStreak)
         ELSE BestStreakScan(chronologicalResults, i + 1, 0, bestStreak)

BestStreak(allResults) == BestStreakScan(Reverse(allResults), 1, 0, 0)

TotalWins(allResults) == Len(SelectSeq(allResults, LAMBDA w : w))

TotalPerfectWins(userId) ==
    Len(SelectSeq(gameResults,
                  LAMBDA r : r.userId = userId /\ r.won /\ r.hintsUsed = 0))

TotalDailies(userId) ==
    Len(SelectSeq(gameResults,
                  LAMBDA r : /\ r.userId = userId
                             /\ r.puzzleId \in DOMAIN puzzles
                             /\ puzzles[r.puzzleId].isDaily))

AlreadyUnlocked(userId) == {ua[2] : ua \in {x \in userAchievements : x[1] = userId}}

SumRewardsOfOne(ids) ==
    IF ids = {} THEN 0 ELSE ACHIEVEMENTS[CHOOSE x \in ids : TRUE]

RECURSIVE SumRewards(_)
SumRewards(ids) ==
    IF ids = {} THEN 0
    ELSE LET a == CHOOSE x \in ids : TRUE
         IN  ACHIEVEMENTS[a] + SumRewards(ids \ {a})

(***************************************************************************)
(* Requests.  A session is the wallet address next-auth resolves, or none  *)
(* for a guest; the users row of a wallet is keyed by that wallet.         *)
(***************************************************************************)
NoSession == "guest"

Wallets == {"w1"}

Sessions == Wallets \cup {NoSession}

SubmitSlots == 1..MaxSubmits

MigrateSlots == 1..MaxMigrates

NoBody == [puzzleId |-> 0, orderedEventIds |-> <<>>, hintsUsed |-> 0, solveTimeMs |-> 0]

IdleReq ==
    [pc |-> "idle", session |-> NoSession, body |-> NoBody,
     correctOrder |-> <<>>, score |-> 0, won |-> FALSE,
     user |-> [id |-> NoSession, xp |-> 0],
     currentStreak |-> 0, bestStreak |-> 0, totalGames |-> 0, totalWins |-> 0,
     totalPerfectWins |-> 0, totalDailies |-> 0,
     alreadyUnlocked |-> {}, newlyUnlockedIds |-> {}, achievementXp |-> 0,
     status |-> 0, xpEarned |-> 0, newAchievements |-> {},
     hadAttempt |-> FALSE, effects |-> {}]

IdleMig ==
    [pc |-> "idle", session |-> NoSession, results |-> <<>>,
     status |-> 0, migrated |-> 0]

(***************************************************************************)
(* POST /api/game/submit, first stretch: body validation, the correct      *)
(* order, score and won, the session and the users row.  The request ends  *)
(* here with 400, 404, or with an unpersisted 200 for a guest and for a    *)
(* wallet without a users row.  hadAttempt and effects are history fields: *)
(* whether the caller had a row for this puzzle when the request arrived,  *)
(* and which tables the request has written.                               *)
(***************************************************************************)
SubmitStart(r, session, body) ==
    /\ req[r].pc = "idle"
    /\ \A q \in SubmitSlots : q < r => req[q].pc # "idle"
    /\ LET correctOrder == CorrectOrderOf(body.puzzleId)
           score == ComputeScore(body.orderedEventIds, correctOrder)
           won == ComputeWon(score, correctOrder)
           received == [IdleReq EXCEPT
                          !.session = session, !.body = body,
                          !.hadAttempt =
                              \E i \in 1..Len(gameResults) :
                                  /\ gameResults[i].userId = session
                                  /\ gameResults[i].puzzleId = body.puzzleId]
           scored == [received EXCEPT !.correctOrder = correctOrder,
                                      !.score = score, !.won = won]
       IN  req' = [req EXCEPT ![r] =
                IF BodyInvalid(body)
                THEN [received EXCEPT !.pc = "done", !.status = 400]
                ELSE IF Len(correctOrder) = 0
                THEN [received EXCEPT !.pc = "done", !.status = 404]
                ELSE IF session = NoSession \/ session \notin DOMAIN users
                THEN [scored EXCEPT !.pc = "done", !.status = 200]
                ELSE [scored EXCEPT
                        !.pc = "dailyCheck",
                        !.user = [id |-> session, xp |-> users[session].xp]]]
    /\ UNCHANGED <<store, clock, mig, delivery, xpCall, stats, client, admin, board>>

(***************************************************************************)
(* The daily duplicate check: 409 when the puzzle is a daily challenge and *)
(* the user already has a game_results row for it.                         *)
(***************************************************************************)
ExistingWonResult(userId, puzzleId) ==
    \E i \in 1..Len(gameResults) :
        /\ gameResults[i].userId = userId
        /\ gameResults[i].puzzleId = puzzleId
        /\ gameResults[i].won

ExistingResult(userId, puzzleId) ==
    \E i \in 1..Len(gameResults) :
        gameResults[i].userId = userId /\ gameResults[i].puzzleId = puzzleId

DailyCheck(r) ==
    /\ req[r].pc = "dailyCheck"
    /\ LET puzzleId == req[r].body.puzzleId
           isDaily == puzzleId \in DOMAIN puzzles /\ puzzles[puzzleId].isDaily
       IN  req' = [req EXCEPT ![r] =
                IF isDaily /\ ExistingResult(req[r].user.id, puzzleId)
                THEN [@ EXCEPT !.pc = "done", !.status = 409]
                ELSE [@ EXCEPT !.pc = "insertResult"]]
    /\ UNCHANGED <<store, clock, mig, delivery, xpCall, stats, client, admin, board>>

(***************************************************************************)
(* db.insert(gameResults): playedAt defaults to now().                     *)
(***************************************************************************)
InsertResult(r) ==
    /\ req[r].pc = "insertResult"
    /\ gameResults' = Append(gameResults,
            [userId |-> req[r].user.id, puzzleId |-> req[r].body.puzzleId,
             won |-> req[r].won, score |-> req[r].score,
             hintsUsed |-> req[r].body.hintsUsed,
             solveTimeMs |-> req[r].body.solveTimeMs,
             playedAt |-> clock])
    /\ clock' = clock + 1
    /\ req' = [req EXCEPT ![r].pc = "readAll",
                          ![r].effects = @ \cup {"attempt"}]
    /\ UNCHANGED <<users, userAchievements, mig, delivery, xpCall, stats, client, admin, board>>

(***************************************************************************)
(* The four reads that feed checkAchievements, one query each.             *)
(***************************************************************************)
ReadAll(r, tie) ==
    /\ req[r].pc = "readAll"
    /\ LET allResults == AllResultsOf(req[r].user.id, tie)
       IN  req' = [req EXCEPT ![r].pc = "readPerfect",
                              ![r].currentStreak = CurrentStreak(allResults),
                              ![r].bestStreak = BestStreak(allResults),
                              ![r].totalGames = Len(allResults),
                              ![r].totalWins = TotalWins(allResults)]
    /\ UNCHANGED <<store, clock, mig, delivery, xpCall, stats, client, admin, board>>

ReadPerfect(r) ==
    /\ req[r].pc = "readPerfect"
    /\ req' = [req EXCEPT ![r].pc = "readDailies",
                          ![r].totalPerfectWins = TotalPerfectWins(req[r].user.id)]
    /\ UNCHANGED <<store, clock, mig, delivery, xpCall, stats, client, admin, board>>

ReadDailies(r) ==
    /\ req[r].pc = "readDailies"
    /\ req' = [req EXCEPT ![r].pc = "readUnlocked",
                          ![r].totalDailies = TotalDailies(req[r].user.id)]
    /\ UNCHANGED <<store, clock, mig, delivery, xpCall, stats, client, admin, board>>

ReadUnlocked(r) ==
    /\ req[r].pc = "readUnlocked"
    /\ LET alreadyUnlocked == AlreadyUnlocked(req[r].user.id)
           newlyUnlockedIds ==
               checkAchievements(
                   [totalWins |-> req[r].totalWins,
                    totalGames |-> req[r].totalGames,
                    currentStreak |-> req[r].currentStreak,
                    bestStreak |-> req[r].bestStreak,
                    hintsUsedThisGame |-> req[r].body.hintsUsed,
                    solveTimeMsThisGame |-> req[r].body.solveTimeMs,
                    totalPerfectWins |-> req[r].totalPerfectWins,
                    totalDailies |-> req[r].totalDailies,
                    won |-> req[r].won,
                    alreadyUnlocked |-> alreadyUnlocked])
       IN  req' = [req EXCEPT
                ![r].alreadyUnlocked = alreadyUnlocked,
                ![r].newlyUnlockedIds = newlyUnlockedIds,
                ![r].pc = IF newlyUnlockedIds = {} THEN "updateUser"
                          ELSE "insertAchievements"]
    /\ UNCHANGED <<store, clock, mig, delivery, xpCall, stats, client, admin, board>>

(***************************************************************************)
(* db.insert(userAchievements) for the newly unlocked ids, then the        *)
(* achievement rows and their summed xpReward.  The composite primary key  *)
(* (user_id, achievement_id) rejects the whole insert when one of the ids  *)
(* is unlocked by now: the handler's catch answers 500.                    *)
(***************************************************************************)
InsertAchievements(r) ==
    /\ req[r].pc = "insertAchievements"
    /\ LET rows == {<<req[r].user.id, a>> : a \in req[r].newlyUnlockedIds}
       IN  IF rows \cap userAchievements # {}
           THEN /\ req' = [req EXCEPT ![r].pc = "done", ![r].status = 500]
                /\ UNCHANGED userAchievements
           ELSE /\ userAchievements' = userAchievements \cup rows
                /\ req' = [req EXCEPT
                        ![r].pc = "updateUser",
                        ![r].newAchievements = req[r].newlyUnlockedIds,
                        ![r].achievementXp = SumRewards(req[r].newlyUnlockedIds),
                        ![r].effects = @ \cup {"achievement"}]
    /\ UNCHANGED <<users, gameResults, clock, mig, delivery, xpCall, stats, client, admin, board>>

(***************************************************************************)
(* xpEarned = calculateXp(...) + achievementXp, then                       *)
(* db.update(users).set({ xp: user.xp + xpEarned }) with the user row read *)
(* at the start of the request, and the 200 response.                      *)
(***************************************************************************)
UpdateUser(r) ==
    /\ req[r].pc = "updateUser"
    /\ LET puzzleId == req[r].body.puzzleId
           isDaily == puzzleId \in DOMAIN puzzles /\ puzzles[puzzleId].isDaily
           xpEarned == calculateXp([won |-> req[r].won,
                                    hintsUsed |-> req[r].body.hintsUsed,
                                    solveTimeMs |-> req[r].body.solveTimeMs,
                                    currentStreak |-> req[r].currentStreak,
                                    isDaily |-> isDaily])
                       + req[r].achievementXp
       IN  /\ users' = [users EXCEPT ![req[r].user.id].xp = req[r].user.xp + xpEarned]
           /\ req' = [req EXCEPT ![r].pc = "done", ![r].status = 200,
                                 ![r].xpEarned = xpEarned,
                                 ![r].effects = @ \cup {"xp"}]
    /\ UNCHANGED <<gameResults, userAchievements, clock, mig, delivery, xpCall, stats, client, admin, board>>

(***************************************************************************)
(* POST /api/game/migrate, as one step: 401 without a session, 400 for an  *)
(* empty batch, the users row created when missing, the records of unknown *)
(* puzzles dropped, then one insert per remaining record with the playedAt *)
(* the client sent.  playedAt is any string: new Date() of one that is no  *)
(* date is an Invalid Date, the insert of that record throws inside the    *)
(* try, and the loop goes on with the next record.                         *)
(***************************************************************************)
InvalidDate == -1

InsertSucceeds(r) == r.playedAt # InvalidDate

MigratedCountAttempted(validResults) == Len(validResults)

MigratedCount(validResults) == Len(SelectSeq(validResults, InsertSucceeds))

MigratedRow(userId, r) ==
    [userId |-> userId, puzzleId |-> r.puzzleId, won |-> r.won, score |-> r.score,
     hintsUsed |-> r.hintsUsed, solveTimeMs |-> r.solveTimeMs, playedAt |-> r.playedAt]

Migrate(m, session, results) ==
    /\ mig[m].pc = "idle"
    /\ \A n \in MigrateSlots : n < m => mig[n].pc # "idle"
    /\ LET received == [IdleMig EXCEPT !.session = session, !.results = results]
           validResults == SelectSeq(results, LAMBDA r : r.puzzleId \in DOMAIN puzzles)
           inserted == SelectSeq(validResults, InsertSucceeds)
       IN  IF session = NoSession
           THEN /\ mig' = [mig EXCEPT ![m] = [received EXCEPT !.pc = "done", !.status = 401]]
                /\ UNCHANGED <<users, gameResults>>
           ELSE IF Len(results) = 0
           THEN /\ mig' = [mig EXCEPT ![m] = [received EXCEPT !.pc = "done", !.status = 400]]
                /\ UNCHANGED <<users, gameResults>>
           ELSE /\ users' = IF session \in DOMAIN users THEN users
                            ELSE [w \in DOMAIN users \cup {session} |->
                                    IF w = session THEN [xp |-> 0] ELSE users[w]]
                /\ gameResults' = gameResults \o
                        [i \in 1..Len(inserted) |-> MigratedRow(session, inserted[i])]
                /\ mig' = [mig EXCEPT ![m] = [received EXCEPT
                        !.pc = "done", !.status = 200, !.migrated = MigratedCount(validResults)]]
    /\ UNCHANGED <<userAchievements, clock, req, delivery, xpCall, stats, client, admin, board>>

(***************************************************************************)
(* Puzzle delivery.  shuffle copies its argument and swaps copy[i] with    *)
(* copy[j] for i from the last index down to the second, j being           *)
(* Math.floor(Math.random() * (i + 1)).  Indices are 1-based here, so the  *)
(* draw at position i is one of 1..i; `draws` maps each i to its draw.     *)
(* The result pairs the caller's array after the call with the copy.       *)
(***************************************************************************)
RandomIndexBelow(i) == 1..(i - 1)

RandomIndex(i) == 1..i

DrawSeqs(n) == {d \in [2..n -> 1..n] : \A i \in 2..n : d[i] \in RandomIndex(i)}

RECURSIVE ShuffleLoop(_, _, _)
ShuffleLoop(copy, i, draws) ==
    IF i <= 1 THEN copy
    ELSE LET j == draws[i]
         IN  ShuffleLoop([copy EXCEPT ![i] = copy[j], ![j] = copy[i]], i - 1, draws)

shuffle(arr, draws) == [arr |-> arr, copy |-> ShuffleLoop(arr, Len(arr), draws)]

EventViewWithIndex(e) ==
    [id |-> e.id, text |-> e.text, date |-> e.date, url |-> e.url,
     orderIndex |-> e.orderIndex]

EventView(e) == [id |-> e.id, text |-> e.text, date |-> e.date, url |-> e.url]

NoDelivery ==
    [route |-> "none", status |-> 0, puzzleId |-> 0, draws |-> <<>>,
     events |-> <<>>, body |-> [error |-> "none"]]

ShuffledEvents(puzzleId, draws) ==
    LET events == EventsOfPuzzle(puzzleId)
        shuffled == shuffle(events, draws)
    IN  [events |-> shuffled.arr,
         shuffledEvents |-> [i \in 1..Len(shuffled.copy) |-> EventView(shuffled.copy[i])]]

DailyPuzzleOf(today) ==
    {p \in DOMAIN puzzles : puzzles[p].isDaily /\ puzzles[p].dailyDate = today}

(***************************************************************************)
(* GET /api/puzzles/today: the daily puzzle of today when there is one,    *)
(* else the puzzle ORDER BY random() LIMIT 1 picks.                        *)
(***************************************************************************)
GetToday(today, randomPuzzle, draws) ==
    /\ delivery.route = "none"
    /\ LET dailyPuzzle == DailyPuzzleOf(today)
       IN  \E p \in (IF dailyPuzzle # {} THEN dailyPuzzle ELSE {randomPuzzle}) :
             /\ draws \in DrawSeqs(Len(EventsOfPuzzle(p)))
             /\ LET se == ShuffledEvents(p, draws)
                IN  delivery' =
                        [route |-> "today", status |-> 200, puzzleId |-> p,
                         draws |-> draws, events |-> se.events,
                         body |-> [id |-> puzzles[p].id, title |-> puzzles[p].title,
                                   category |-> puzzles[p].category,
                                   isDaily |-> puzzles[p].isDaily,
                                   events |-> se.shuffledEvents]]
    /\ UNCHANGED <<store, clock, req, mig, xpCall, stats, client, admin, board>>

(***************************************************************************)
(* GET /api/puzzles/[id]: 400 for an id that is no uuid (0 here), 404 for  *)
(* an unknown puzzle, else the puzzle with its events shuffled.            *)
(***************************************************************************)
GetById(id, draws) ==
    /\ delivery.route = "none"
    /\ IF id = 0
       THEN delivery' = [NoDelivery EXCEPT !.route = "byId", !.status = 400,
                                           !.body = [error |-> "Invalid puzzle ID format"]]
       ELSE IF id \notin DOMAIN puzzles
       THEN delivery' = [NoDelivery EXCEPT !.route = "byId", !.status = 404,
                                           !.body = [error |-> "Puzzle not found"]]
       ELSE /\ draws \in DrawSeqs(Len(EventsOfPuzzle(id)))
            /\ LET se == ShuffledEvents(id, draws)
               IN  delivery' =
                       [route |-> "byId", status |-> 200, puzzleId |-> id,
                        draws |-> draws, events |-> se.events,
                        body |-> [id |-> puzzles[id].id, title |-> puzzles[id].title,
                                  category |-> puzzles[id].category,
                                  events |-> se.shuffledEvents]]
    /\ UNCHANGED <<store, clock, req, mig, xpCall, stats, client, admin, board>>

(***************************************************************************)
(* A call of calculateXp on its own.                                       *)
(***************************************************************************)
NoXpCall ==
    [input |-> [won |-> FALSE, hintsUsed |-> 0, solveTimeMs |-> 0,
                currentStreak |-> 0, isDaily |-> FALSE],
     called |-> FALSE, result |-> 0]

CallCalculateXp(input) ==
    /\ ~xpCall.called
    /\ xpCall' = [input |-> input, called |-> TRUE, result |-> calculateXp(input)]
    /\ UNCHANGED <<store, clock, req, mig, delivery, stats, client, admin, board>>

(***************************************************************************)
(* The statistics routes.  computeStreaks (leaderboard route) takes the    *)
(* won flags newest first: the current streak counts wins from the front   *)
(* up to the first loss, the best streak scans the reversed array with a   *)
(* counter reset on each loss.  GET /api/stats/me runs the same two loops  *)
(* inline over the caller's rows.  Each handler is one step here: its      *)
(* reads are not interleaved with writes.                                  *)
(***************************************************************************)
RECURSIVE computeStreaksCurrent(_, _)
computeStreaksCurrent(results, i) ==
    IF i > Len(results) THEN 0
    ELSE IF results[i] THEN 1 + computeStreaksCurrent(results, i + 1)
    ELSE 0

RECURSIVE computeStreaksBestNoReset(_, _, _, _)
computeStreaksBestNoReset(chronological, i, tempStreak, bestStreak) ==
    IF i > Len(chronological) THEN bestStreak
    ELSE IF chronological[i]
         THEN computeStreaksBestNoReset(chronological, i + 1, tempStreak + 1,
                                        IF tempStreak + 1 > bestStreak
                                        THEN tempStreak + 1 ELSE bestStreak)
         ELSE computeStreaksBestNoReset(chronological, i + 1, tempStreak, bestStreak)

RECURSIVE computeStreaksBest(_, _, _, _)
computeStreaksBest(chronological, i, tempStreak, bestStreak) ==
    IF i > Len(chronological) THEN bestStreak
    ELSE IF chronological[i]
         THEN computeStreaksBest(chronological, i + 1, tempStreak + 1,
                                 IF tempStreak + 1 > bestStreak
                                 THEN tempStreak + 1 ELSE bestStreak)
         ELSE computeStreaksBest(chronological, i + 1, 0, bestStreak)

computeStreaks(results) ==
    [currentStreak |-> computeStreaksCurrent(results, 1),
     bestStreak |-> computeStreaksBest(Reverse(results), 1, 0, 0)]

NoStats == [route |-> "none", status |-> 0, allResults |-> <<>>, body |-> [error |-> "none"]]

GetStatsMe(session, tie) ==
    /\ stats' =
          IF session = NoSession
          THEN [NoStats EXCEPT !.route = "me", !.status = 401,
                               !.body = [error |-> "Authentication required"]]
          ELSE IF session \notin DOMAIN users
          THEN [NoStats EXCEPT !.route = "me", !.status = 404,
                               !.body = [error |-> "User not found"]]
          ELSE LET allResults == AllResultsOf(session, tie)
                   streaks == computeStreaks(allResults)
               IN  [route |-> "me", status |-> 200, allResults |-> allResults,
                    body |-> [gamesPlayed |-> Len(allResults),
                              wins |-> Len(SelectSeq(allResults, LAMBDA w : w)),
                              currentStreak |-> streaks.currentStreak,
                              bestStreak |-> streaks.bestStreak,
                              xp |-> users[session].xp]]
    /\ UNCHANGED <<store, clock, req, mig, delivery, xpCall, client, admin, board>>

\* GET /api/stats/leaderboard?sort=best_streak with the one wallet of the
\* model: the entry of each user, streaks by computeStreaks
GetLeaderboard(tie) ==
    /\ stats' =
          [route |-> "leaderboard", status |-> 200,
           allResults |-> IF DOMAIN users = {} THEN <<>>
                          ELSE AllResultsOf(CHOOSE w \in DOMAIN users : TRUE, tie),
           body |-> [entries |->
                        {[walletAddress |-> w, xp |-> users[w].xp,
                          currentStreak |-> computeStreaks(AllResultsOf(w, tie)).currentStreak,
                          bestStreak |-> computeStreaks(AllResultsOf(w, tie)).bestStreak]
                            : w \in DOMAIN users}]]
    /\ UNCHANGED <<store, clock, req, mig, delivery, xpCall, client, admin, board>>

(***************************************************************************)
(* Inputs.                                                                 *)
(***************************************************************************)
EventIdsOf(p) == {e.id : e \in {x \in puzzleEvents : x.puzzleId = p}}

RECURSIVE PermSeqs(_)
PermSeqs(S) ==
    IF S = {} THEN {<<>>}
    ELSE UNION {{<<x>> \o s : s \in PermSeqs(S \ {x})} : x \in S}

\* every ordering of the puzzle's events, and the malformed ones next to it:
\* the last id dropped, an id appended, an id replaced by an unknown one
CandidateOrders(p) ==
    LET perms == PermSeqs(EventIdsOf(p))
    IN  perms
        \cup {SubSeq(s, 1, Len(s) - 1) : s \in perms}
        \cup {Append(s, UnknownEventId) : s \in perms}
        \cup {Append(s, s[1]) : s \in {t \in perms : Len(t) > 0}}
        \cup UNION {{[s EXCEPT ![i] = UnknownEventId] : i \in 1..Len(s)} : s \in perms}

ScoreBodies ==
    UNION {[puzzleId : {p}, orderedEventIds : CandidateOrders(p),
            hintsUsed : {-1, 0}, solveTimeMs : {-1, 10000}]
           : p \in PuzzleIds \cup {0, UnknownPuzzleId}}

\* the requests of the store specification: the daily puzzle 2 and the
\* puzzle 3, solved or with the first two events exchanged, played fast
\* without hints or slowly with one
LivePuzzleIds == {2, 3}

SolvedOrder(p) == [i \in 1..p |-> 10 * p + (i % p)]

ExchangedOrder(p) ==
    [i \in 1..p |-> IF i = 1 THEN SolvedOrder(p)[2]
                    ELSE IF i = 2 THEN SolvedOrder(p)[1] ELSE SolvedOrder(p)[i]]

PlayStyles == {[hintsUsed |-> 0, solveTimeMs |-> 10000],
               [hintsUsed |-> 1, solveTimeMs |-> 40000]}

SubmitBodies ==
    UNION {{[puzzleId |-> p, orderedEventIds |-> o,
             hintsUsed |-> st.hintsUsed, solveTimeMs |-> st.solveTimeMs]
               : o \in {SolvedOrder(p), ExchangedOrder(p)}, st \in PlayStyles}
           : p \in LivePuzzleIds}
    \cup {[puzzleId |-> 2, orderedEventIds |-> SolvedOrder(2),
           hintsUsed |-> -1, solveTimeMs |-> 10000],
          [puzzleId |-> UnknownPuzzleId, orderedEventIds |-> SolvedOrder(2),
           hintsUsed |-> 0, solveTimeMs |-> 10000],
          [puzzleId |-> 3, orderedEventIds |-> SolvedOrder(3),
           hintsUsed |-> MAX_HINTS + 1, solveTimeMs |-> 40000]}

\* guest results as the client keeps them: a win or a loss on a live puzzle,
\* all played before the server clock started
GuestResults ==
    {[puzzleId |-> p, won |-> w, score |-> IF w THEN p ELSE p - 2,
      hintsUsed |-> IF w THEN 0 ELSE 1, solveTimeMs |-> IF w THEN 10000 ELSE 40000,
      playedAt |-> 0] : p \in LivePuzzleIds, w \in BOOLEAN}

UnknownPuzzleResult ==
    [puzzleId |-> UnknownPuzzleId, won |-> TRUE, score |-> 5,
     hintsUsed |-> 0, solveTimeMs |-> 10000, playedAt |-> 0]

\* batch sizes: one or two results, and one short of the thresholds 5, 10
\* and 50 of checkAchievements
BatchSizes == {1, 2, 5 - 1, 10 - 1, 50 - 1}

\* a winning history one short of the streak thresholds 7 and 15
StreakBatchSizes == {7 - 1, 15 - 1}

GuestWin == CHOOSE g \in GuestResults : g.puzzleId = 3 /\ g.won

\* a playedAt ahead of the database clock (a client clock that runs fast)
LaterPlayedAt == MaxSubmits + 2

\* a batch whose middle record cannot be inserted, between a record of an
\* unknown puzzle and two good ones
FailingBatch ==
    <<GuestWin, UnknownPuzzleResult, [GuestWin EXCEPT !.playedAt = InvalidDate], GuestWin>>

\* records that pass the type checks of the migrate route only: more hints
\* than a game offers, and a score and a verdict no puzzle of 3 events gives
UntypedBatch ==
    <<[GuestWin EXCEPT !.hintsUsed = MAX_HINTS + 1],
      [GuestWin EXCEPT !.score = MaxEvents + 1, !.won = FALSE]>>

MigrateBatches ==
    {[i \in 1..n |-> g] : n \in BatchSizes, g \in GuestResults}
    \cup {[i \in 1..n |-> GuestWin] : n \in StreakBatchSizes}
    \cup {<<UnknownPuzzleResult>>, <<>>}
    \cup {<<UnknownPuzzleResult, g>> : g \in {h \in GuestResults : h.puzzleId = 3 /\ h.won}}
    \cup {<<[GuestWin EXCEPT !.playedAt = LaterPlayedAt]>>, FailingBatch, UntypedBatch}

\* a wallet sends every body and every batch, a guest one of each
GuestBody == CHOOSE b \in SubmitBodies : b.puzzleId = 3 /\ b.hintsUsed = 0 /\ b.orderedEventIds = SolvedOrder(3)

GuestLosingBody == [GuestBody EXCEPT !.orderedEventIds = ExchangedOrder(3)]

SubmitInputs ==
    {<<w, b>> : w \in Wallets, b \in SubmitBodies}
    \cup {<<NoSession, GuestBody>>, <<NoSession, GuestLosingBody>>}

MigrateInputs ==
    {<<w, b>> : w \in Wallets, b \in MigrateBatches}
    \cup {<<NoSession, <<UnknownPuzzleResult>> >>}

\* attempt histories of the statistics specification: every sequence of
\* wins and losses up to MaxHistory attempts, played at the times 1, 2, ...
MaxHistory == 6

HistoryRecord(won, playedAt) ==
    [puzzleId |-> 3, won |-> won, score |-> IF won THEN 3 ELSE 1,
     hintsUsed |-> 0, solveTimeMs |-> 10000, playedAt |-> playedAt]

HistoryBatches ==
    UNION {{[i \in 1..n |-> HistoryRecord(h[i], i)] : h \in [1..n -> BOOLEAN]}
           : n \in 1..MaxHistory}

(***************************************************************************)
(* Guest statistics in the browser's local storage (guest-stats.ts).  A    *)
(* missing or unreadable key reads as the empty statistics.                *)
(***************************************************************************)
EMPTY_GUEST_STATS ==
    [gamesPlayed |-> 0, wins |-> 0, currentStreak |-> 0, bestStreak |-> 0,
     results |-> <<>>]

recordGuestResultNoReset(guestStats, result) ==
    [gamesPlayed |-> guestStats.gamesPlayed + 1,
     wins |-> IF result.won THEN guestStats.wins + 1 ELSE guestStats.wins,
     currentStreak |-> IF result.won THEN guestStats.currentStreak + 1 ELSE guestStats.currentStreak,
     bestStreak |-> IF result.won /\ guestStats.currentStreak + 1 > guestStats.bestStreak
                    THEN guestStats.currentStreak + 1 ELSE guestStats.bestStreak,
     results |-> Append(guestStats.results, result)]

\* the statistics recordGuestResult writes back, given the ones it read
recordGuestResult(guestStats, result) ==
    [gamesPlayed |-> guestStats.gamesPlayed + 1,
     wins |-> IF result.won THEN guestStats.wins + 1 ELSE guestStats.wins,
     currentStreak |-> IF result.won THEN guestStats.currentStreak + 1 ELSE 0,
     bestStreak |-> IF result.won /\ guestStats.currentStreak + 1 > guestStats.bestStreak
                    THEN guestStats.currentStreak + 1 ELSE guestStats.bestStreak,
     results |-> Append(guestStats.results, result)]

(***************************************************************************)
(* One browser.  session is the session cookie, status what useSession     *)
(* reports, hasMigrated the ref of the mounted MigrationHandler, page the  *)
(* number of page loads, fetches the migrate requests whose promise has    *)
(* not settled, each with the page that sent it, the cookie and the body   *)
(* it carries.  now is the browser's clock; sent and recorded are history  *)
(* fields: the number of requests sent, and every result ever written to   *)
(* local storage.                                                          *)
(***************************************************************************)
MaxGuestResults == 5    \* calls of recordGuestResult
MaxClientResults == 2   \* of them before and during a migration
MaxFetches == 2         \* migrate requests the browser sends
MaxReloads == 1         \* page loads after the first

InitClient ==
    [session |-> NoSession, status |-> "unauthenticated", hasMigrated |-> FALSE,
     page |-> 0, guestStats |-> EMPTY_GUEST_STATS, fetches |-> <<>>,
     now |-> 1, sent |-> 0, recorded |-> {}]

\* the results a game can hand to recordGuestResult at browser time `now`:
\* a win and a loss on puzzle 3, a win on a puzzle that is deleted before
\* the migration, and a win whose playedAt is no date
ClientResults(now) ==
    {[GuestWin EXCEPT !.playedAt = now],
     [GuestWin EXCEPT !.playedAt = now, !.won = FALSE, !.score = 1],
     [UnknownPuzzleResult EXCEPT !.playedAt = now],
     [GuestWin EXCEPT !.playedAt = InvalidDate]}

RecordGuestResult(result, persisted) ==
    /\ client.now <= MaxGuestResults
    /\ result \in ClientResults(client.now)
    /\ client' = IF persisted
                 THEN [client EXCEPT
                         !.guestStats = recordGuestResult(client.guestStats, result),
                         !.now = @ + 1,
                         !.recorded = @ \cup {result}]
                 ELSE client
    /\ UNCHANGED <<store, clock, req, mig, delivery, xpCall, stats, admin, board>>

\* the effect of MigrationHandler, run after a render with a new status
MigrationEffect(c) ==
    IF c.status # "authenticated" \/ c.hasMigrated THEN c
    ELSE IF Len(c.guestStats.results) = 0 THEN [c EXCEPT !.hasMigrated = TRUE]
    ELSE [c EXCEPT !.hasMigrated = TRUE,
                   !.fetches = Append(@, [page |-> c.page, session |-> c.session,
                                          body |-> c.guestStats.results]),
                   !.sent = @ + 1]

\* the wallet is connected: the session becomes authenticated
Connect(w) ==
    /\ client.status = "unauthenticated"
    /\ client.sent < MaxFetches
    /\ client' = MigrationEffect([client EXCEPT !.session = w, !.status = "authenticated"])
    /\ UNCHANGED <<store, clock, req, mig, delivery, xpCall, stats, admin, board>>

\* the wallet is disconnected
Disconnect ==
    /\ client.status = "authenticated"
    /\ client' = MigrationEffect([client EXCEPT !.session = NoSession,
                                                !.status = "unauthenticated"])
    /\ UNCHANGED <<store, clock, req, mig, delivery, xpCall, stats, admin, board>>

\* the page is loaded again: a new MigrationHandler with a new ref, the
\* session not yet resolved, the promises of the old page gone
Reload ==
    /\ client.page < MaxReloads
    /\ client' = MigrationEffect([client EXCEPT !.page = @ + 1, !.status = "loading",
                                                !.hasMigrated = FALSE])
    /\ UNCHANGED <<store, clock, req, mig, delivery, xpCall, stats, admin, board>>

\* useSession resolves the session of the cookie
SessionResolved ==
    /\ client.status = "loading"
    /\ client.sent < MaxFetches
    /\ client' = MigrationEffect([client EXCEPT !.status =
                     IF client.session = NoSession THEN "unauthenticated"
                     ELSE "authenticated"])
    /\ UNCHANGED <<store, clock, req, mig, delivery, xpCall, stats, admin, board>>

\* the migrate route serves one of the requests in flight
ServeMigrate(i) ==
    /\ i \in 1..Len(client.fetches)
    /\ Migrate(1, client.fetches[i].session, client.fetches[i].body)

RemoveAt(seq, i) == SubSeq(seq, 1, i - 1) \o SubSeq(seq, i + 1, Len(seq))

clearGuestStats(c) == [c EXCEPT !.guestStats = EMPTY_GUEST_STATS]

\* the promise of fetch i settles: with the response the route gave, or
\* rejected because the response was lost.  Callbacks of an earlier page
\* no longer exist.
Settle(i, arrived) ==
    /\ i \in 1..Len(client.fetches)
    /\ mig[1].pc = "done"
    /\ mig[1].results = client.fetches[i].body
    /\ mig[1].session = client.fetches[i].session
    /\ \A j \in 1..(i - 1) : client.fetches[j] # client.fetches[i]
    /\ LET c == [client EXCEPT !.fetches = RemoveAt(@, i)]
       IN  client' = IF client.fetches[i].page # client.page THEN c
                     ELSE IF arrived /\ mig[1].status = 200 THEN clearGuestStats(c)
                     ELSE [c EXCEPT !.hasMigrated = FALSE]
    /\ mig' = [mig EXCEPT ![1] = IdleMig]
    /\ UNCHANGED <<store, clock, req, delivery, xpCall, stats, admin, board>>

\* the request of fetch i never reaches the route
FetchFails(i) ==
    /\ i \in 1..Len(client.fetches)
    /\ mig[1].pc = "idle"
    /\ LET c == [client EXCEPT !.fetches = RemoveAt(@, i)]
       IN  client' = IF client.fetches[i].page # client.page THEN c
                     ELSE [c EXCEPT !.hasMigrated = FALSE]
    /\ UNCHANGED <<store, clock, req, mig, delivery, xpCall, stats, admin, board>>

(***************************************************************************)
(* The admin puzzle routes, over a puzzles table and a puzzle_events table *)
(* of their own: POST /api/admin/puzzles, PUT and DELETE                   *)
(* /api/admin/puzzles/[id].  Each awaited statement of POST and PUT is a   *)
(* step; DELETE is one step, its select and its delete leaving the same    *)
(* tables however they interleave with other requests.  A request body is  *)
(* reduced to the number n of events it carries; events rows are kept in   *)
(* insertion order with their puzzleId and orderIndex.                     *)
(***************************************************************************)
MaxPosts == 2          \* POST requests, and so puzzles created
MaxPuts == 2           \* PUT requests
MaxDeletes == 1        \* DELETE requests
MaxAdminEvents == 2    \* events in a request body

PostSlots == 1..MaxPosts

PutSlots == 1..MaxPuts

DeleteSlots == 1..MaxDeletes

IdleAdminReq == [pc |-> "idle", id |-> 0, n |-> 0, status |-> 0]

InitAdmin ==
    [puzzles |-> {}, events |-> <<>>,
     post |-> [s \in PostSlots |-> IdleAdminReq],
     put |-> [s \in PutSlots |-> IdleAdminReq],
     del |-> [s \in DeleteSlots |-> IdleAdminReq]]

\* events.map((ev, i) => ({puzzleId, ..., orderIndex: i}))
eventValues(id, n) == [i \in 1..n |-> [puzzleId |-> id, orderIndex |-> i - 1]]

\* insert into puzzle_events: the foreign key rejects rows of a puzzle that
\* is not in the puzzles table
EventsInsertable(id) == id \in admin.puzzles

\* POST: requireAdmin, validation, insert into puzzles
AdminPostStart(s, isAdmin, n) ==
    /\ admin.post[s].pc = "idle"
    /\ \A q \in PostSlots : q < s => admin.post[q].pc # "idle"
    /\ admin' =
         IF ~isAdmin
         THEN [admin EXCEPT !.post[s] = [pc |-> "done", id |-> 0, n |-> n, status |-> 403]]
         ELSE IF n = 0
         THEN [admin EXCEPT !.post[s] = [pc |-> "done", id |-> 0, n |-> n, status |-> 400]]
         ELSE [admin EXCEPT !.puzzles = @ \cup {s},
                            !.post[s] = [pc |-> "insertEvents", id |-> s, n |-> n,
                                         status |-> 0]]
    /\ UNCHANGED <<store, clock, req, mig, delivery, xpCall, stats, client, board>>

\* POST: insert into puzzle_events, 201
AdminPostEvents(s) ==
    /\ admin.post[s].pc = "insertEvents"
    /\ admin' =
         IF EventsInsertable(admin.post[s].id)
         THEN [admin EXCEPT !.events = @ \o eventValues(admin.post[s].id, admin.post[s].n),
                            !.post[s].pc = "done", !.post[s].status = 201]
         ELSE [admin EXCEPT !.post[s].pc = "done", !.post[s].status = 500]
    /\ UNCHANGED <<store, clock, req, mig, delivery, xpCall, stats, client, board>>

\* PUT: requireAdmin, validation, select of the puzzle
AdminPutStart(s, isAdmin, id, n) ==
    /\ admin.put[s].pc = "idle"
    /\ \A q \in PutSlots : q < s => admin.put[q].pc # "idle"
    /\ admin' =
         IF ~isAdmin
         THEN [admin EXCEPT !.put[s] = [pc |-> "done", id |-> id, n |-> n, status |-> 403]]
         ELSE IF n = 0
         THEN [admin EXCEPT !.put[s] = [pc |-> "done", id |-> id, n |-> n, status |-> 400]]
         ELSE IF id \notin admin.puzzles
         THEN [admin EXCEPT !.put[s] = [pc |-> "done", id |-> id, n |-> n, status |-> 404]]
         ELSE [admin EXCEPT !.put[s] = [pc |-> "update", id |-> id, n |-> n, status |-> 0]]
    /\ UNCHANGED <<store, clock, req, mig, delivery, xpCall, stats, client, board>>

\* PUT: update of the puzzles row (no column of it is in the model)
AdminPutUpdate(s) ==
    /\ admin.put[s].pc = "update"
    /\ admin' = [admin EXCEPT !.put[s].pc = "delete"]
    /\ UNCHANGED <<store, clock, req, mig, delivery, xpCall, stats, client, board>>

\* PUT: delete from puzzle_events where puzzleId = id
AdminPutDelete(s) ==
    /\ admin.put[s].pc = "delete"
    /\ admin' = [admin EXCEPT
                   !.events = SelectSeq(@, LAMBDA e : e.puzzleId # admin.put[s].id),
                   !.put[s].pc = "insert"]
    /\ UNCHANGED <<store, clock, req, mig, delivery, xpCall, stats, client, board>>

\* PUT: insert of the new events, 200
AdminPutInsert(s) ==
    /\ admin.put[s].pc = "insert"
    /\ admin' =
         IF EventsInsertable(admin.put[s].id)
         THEN [admin EXCEPT !.events = @ \o eventValues(admin.put[s].id, admin.put[s].n),
                            !.put[s].pc = "done", !.put[s].status = 200]
         ELSE [admin EXCEPT !.put[s].pc = "done", !.put[s].status = 500]
    /\ UNCHANGED <<store, clock, req, mig, delivery, xpCall, stats, client, board>>

\* DELETE: requireAdmin, select, delete from puzzles; the events of the
\* puzzle go with it (on delete cascade)
AdminDelete(s, isAdmin, id) ==
    /\ admin.del[s].pc = "idle"
    /\ \A q \in DeleteSlots : q < s => admin.del[q].pc # "idle"
    /\ admin' =
         IF ~isAdmin
         THEN [admin EXCEPT !.del[s] = [pc |-> "done", id |-> id, n |-> 0, status |-> 403]]
         ELSE IF id \notin admin.puzzles
         THEN [admin EXCEPT !.del[s] = [pc |-> "done", id |-> id, n |-> 0, status |-> 404]]
         ELSE [admin EXCEPT !.puzzles = @ \ {id},
                            !.events = SelectSeq(@, LAMBDA e : e.puzzleId # id),
                            !.del[s] = [pc |-> "done", id |-> id, n |-> 0, status |-> 200]]
    /\ UNCHANGED <<store, clock, req, mig, delivery, xpCall, stats, client, board>>


(***************************************************************************)
(* The game board (game-board.tsx).  On mount and on a change of puzzle    *)
(* the effect calls shuffle(puzzle.events) and shows what it returns.  The *)
(* board's shuffle runs the Fisher-Yates loop on a copy and calls itself   *)
(* again when the copy came out in the order of its argument; a call is a  *)
(* step.  arr is the argument, items the order shown, reshuffled a history *)
(* field: whether some call of the running shuffle has called itself.      *)
(***************************************************************************)
MaxBoardEvents == 4    \* events of the puzzles the board is given

InitBoard == [pc |-> "idle", arr |-> <<>>, items |-> <<>>, reshuffled |-> FALSE]

\* puzzle.events as a delivery route sends them: the ids of a puzzle's
\* events in any order
BoardPuzzles ==
    UNION {PermSeqs(EventIdsOf(p)) : p \in 1..MaxBoardEvents}

BoardDraws == UNION {DrawSeqs(n) : n \in 1..MaxBoardEvents}

ShufflesAgainNever(arr, copy) == FALSE

\* copy.length > 1 && copy.every((item, idx) => item === arr[idx])
ShufflesAgain(arr, copy) ==
    Len(copy) > 1 /\ \A idx \in 1..Len(copy) : copy[idx] = arr[idx]

\* useEffect on [puzzle]: setItems(shuffle(puzzle.events)), entered
BoardMount(events) ==
    /\ board.pc \in {"idle", "returned"}
    /\ board' = [pc |-> "shuffling", arr |-> events, items |-> <<>>,
                 reshuffled |-> FALSE]
    /\ UNCHANGED <<store, clock, req, mig, delivery, xpCall, stats, client, admin>>

\* one call of the board's shuffle, with the draws of its loop
ShuffleCall(draws) ==
    /\ board.pc = "shuffling"
    /\ draws \in DrawSeqs(Len(board.arr))
    /\ LET copy == ShuffleLoop(board.arr, Len(board.arr), draws)
       IN  board' = IF ShufflesAgain(board.arr, copy)
                    THEN [board EXCEPT !.reshuffled = TRUE]
                    ELSE [board EXCEPT !.pc = "returned", !.items = copy]
    /\ UNCHANGED <<store, clock, req, mig, delivery, xpCall, stats, client, admin>>


(***************************************************************************)
(* The store after deployment and seeding: puzzles and the achievement     *)
(* catalog are there, no user has signed in, no request is in flight.      *)
(***************************************************************************)
Init ==
    /\ users = [w \in {} |-> [xp |-> 0]]
    /\ gameResults = <<>>
    /\ userAchievements = {}
    /\ clock = 1
    /\ req = [r \in SubmitSlots |-> IdleReq]
    /\ mig = [m \in MigrateSlots |-> IdleMig]
    /\ delivery = NoDelivery
    /\ xpCall = NoXpCall
    /\ stats = NoStats
    /\ client = InitClient
    /\ admin = InitAdmin
    /\ board = InitBoard

(***************************************************************************)
(* Spec: submit requests that overlap each other, and migrate requests.    *)
(***************************************************************************)
Next ==
    \/ \E r \in SubmitSlots, in \in SubmitInputs : SubmitStart(r, in[1], in[2])
    \/ \E r \in SubmitSlots : DailyCheck(r)
    \/ \E r \in SubmitSlots : InsertResult(r)
    \/ \E r \in SubmitSlots, tie \in {"insertion", "reverse"} : ReadAll(r, tie)
    \/ \E r \in SubmitSlots : ReadPerfect(r)
    \/ \E r \in SubmitSlots : ReadDailies(r)
    \/ \E r \in SubmitSlots : ReadUnlocked(r)
    \/ \E r \in SubmitSlots : InsertAchievements(r)
    \/ \E r \in SubmitSlots : UpdateUser(r)
    \/ \E m \in MigrateSlots, in \in MigrateInputs : Migrate(m, in[1], in[2])

Spec == Init /\ [][Next]_vars

(***************************************************************************)
(* SpecScore: one submit request over every candidate ordering.            *)
(***************************************************************************)
NextScore ==
    \E session \in Sessions, body \in ScoreBodies : SubmitStart(1, session, body)

SpecScore == Init /\ [][NextScore]_vars

(***************************************************************************)
(* SpecDelivery: the two puzzle delivery routes over every puzzle, date    *)
(* and sequence of random draws.                                           *)
(***************************************************************************)
Dates == 0..(MaxEvents + 1)

NextDelivery ==
    \/ \E today \in Dates, randomPuzzle \in PuzzleIds :
           \E draws \in DrawSeqs(Len(EventsOfPuzzle(
                            IF DailyPuzzleOf(today) # {}
                            THEN CHOOSE p \in DailyPuzzleOf(today) : TRUE
                            ELSE randomPuzzle))) :
               GetToday(today, randomPuzzle, draws)
    \/ \E id \in PuzzleIds \cup {0, UnknownPuzzleId} :
           \E draws \in DrawSeqs(Len(EventsOfPuzzle(id))) : GetById(id, draws)

SpecDelivery == Init /\ [][NextDelivery]_vars

(***************************************************************************)
(* SpecXp: calculateXp over its inputs.                                    *)
(***************************************************************************)
XpInputs ==
    [won : BOOLEAN, hintsUsed : 0..MAX_HINTS,
     solveTimeMs : {0, SPEED_BONUS_THRESHOLD_MS - 1, SPEED_BONUS_THRESHOLD_MS, 60000},
     currentStreak : 0..MaxStreak, isDaily : BOOLEAN]

NextXp == \E input \in XpInputs : CallCalculateXp(input)

SpecXp == Init /\ [][NextXp]_vars

(***************************************************************************)
(* SpecStats: the statistics routes over every attempt history, stored     *)
(* through migrate.                                                        *)
(***************************************************************************)
NextStats ==
    \/ \E w \in Wallets, results \in HistoryBatches : Migrate(1, w, results)
    \/ \E session \in Sessions, tie \in {"insertion", "reverse"} : GetStatsMe(session, tie)
    \/ \E tie \in {"insertion", "reverse"} : GetLeaderboard(tie)

SpecStats == Init /\ [][NextStats]_vars

(***************************************************************************)
(* SpecClient: a browser that plays as a guest, connects a wallet, reloads *)
(* the page and loses responses, and the migrate route serving it.         *)
(***************************************************************************)
NextClient ==
    \/ \E result \in ClientResults(client.now), persisted \in BOOLEAN :
           client.now <= MaxClientResults /\ RecordGuestResult(result, persisted)
    \/ \E w \in Wallets : Connect(w)
    \/ Disconnect
    \/ Reload
    \/ SessionResolved
    \/ \E i \in 1..MaxFetches : ServeMigrate(i)
    \/ \E i \in 1..MaxFetches, arrived \in BOOLEAN : Settle(i, arrived)
    \/ \E i \in 1..MaxFetches : FetchFails(i)

SpecClient == Init /\ [][NextClient]_vars

(***************************************************************************)
(* SpecAdmin: admin requests that overlap each other.                      *)
(***************************************************************************)
NextAdmin ==
    \/ \E s \in PostSlots, isAdmin \in BOOLEAN, n \in 0..MaxAdminEvents :
           AdminPostStart(s, isAdmin, n)
    \/ \E s \in PostSlots : AdminPostEvents(s)
    \/ \E s \in PutSlots, isAdmin \in BOOLEAN, id \in PostSlots, n \in 0..MaxAdminEvents :
           AdminPutStart(s, isAdmin, id, n)
    \/ \E s \in PutSlots : AdminPutUpdate(s)
    \/ \E s \in PutSlots : AdminPutDelete(s)
    \/ \E s \in PutSlots : AdminPutInsert(s)
    \/ \E s \in DeleteSlots, isAdmin \in BOOLEAN, id \in PostSlots : AdminDelete(s, isAdmin, id)

SpecAdmin == Init /\ [][NextAdmin]_vars

(***************************************************************************)
(* SpecBoard: the game board given one puzzle after another.  Math.random  *)
(* is fair: a sequence of draws that stays possible is drawn in the end.   *)
(***************************************************************************)
NextBoard ==
    \/ \E events \in BoardPuzzles : BoardMount(events)
    \/ \E draws \in BoardDraws : ShuffleCall(draws)

SpecBoard ==
    Init /\ [][NextBoard]_vars /\ \A draws \in BoardDraws : WF_vars(ShuffleCall(draws))

(***************************************************************************)
(* SpecGuest: a guest's games, recorded in local storage one by one.       *)
(***************************************************************************)
NextGuest ==
    \E result \in ClientResults(client.now), persisted \in BOOLEAN :
        RecordGuestResult(result, persisted)

SpecGuest == Init /\ [][NextGuest]_vars

(***************************************************************************)
(* Properties.                                                             *)
(***************************************************************************)
\* the event of puzzle p whose orderIndex is k: the ground truth
EventAtRank(p, k) ==
    CHOOSE e \in puzzleEvents : e.puzzleId = p /\ e.orderIndex = k

EventCount(p) == Cardinality({e \in puzzleEvents : e.puzzleId = p})

TrueOrder(p) == [i \in 1..EventCount(p) |-> EventAtRank(p, i - 1).id]

IsDailyPuzzle(p) == p \in PuzzleIds /\ p % 2 = 0

RewardTotal(ids) ==
    (IF "first_win" \in ids THEN 50 ELSE 0) + (IF "streak_3" \in ids THEN 100 ELSE 0)
    + (IF "streak_7" \in ids THEN 250 ELSE 0) + (IF "streak_15" \in ids THEN 500 ELSE 0)
    + (IF "no_hints" \in ids THEN 75 ELSE 0) + (IF "speed_demon" \in ids THEN 150 ELSE 0)
    + (IF "daily_5" \in ids THEN 200 ELSE 0) + (IF "daily_30" \in ids THEN 500 ELSE 0)
    + (IF "games_50" \in ids THEN 300 ELSE 0) + (IF "perfect_10" \in ids THEN 400 ELSE 0)

\* C1: every submit answered 200 returns as score the number of positions
\* i < N at which the candidate holds the event of rank i, so 0 <= score <= N,
\* won exactly when score = N, and correctOrder is the true order.
C1_ScoreIsPositionalCount ==
    \A r \in SubmitSlots :
        req[r].status = 200 =>
            LET p == req[r].body.puzzleId
                candidate == req[r].body.orderedEventIds
                N == EventCount(p)
                matches == {i \in 0..(N - 1) :
                               /\ i < Len(candidate)
                               /\ candidate[i + 1] = EventAtRank(p, i).id}
            IN  /\ req[r].score = Cardinality(matches)
                /\ 0 <= req[r].score /\ req[r].score <= N
                /\ req[r].won <=> (req[r].score = N)
                /\ req[r].correctOrder = TrueOrder(p)

\* C1 witness: scenario B, the first two of five events exchanged: score 3, lost.
C1_ScenarioB ==
    \E r \in SubmitSlots :
        /\ req[r].status = 200
        /\ req[r].body.puzzleId = 5
        /\ req[r].body.orderedEventIds = ExchangedOrder(5)
        /\ req[r].score = 3
        /\ ~req[r].won

Malformed(p, candidate) ==
    \/ Len(candidate) # EventCount(p)
    \/ \E i \in 1..Len(candidate) : candidate[i] \notin EventIdsOf(p)

\* C2: a submit for an existing puzzle whose candidate has the wrong length
\* or holds an id that is no event of the puzzle is answered 400 and never
\* with won = true.
C2_MalformedRejected ==
    \A r \in SubmitSlots :
        (/\ req[r].pc = "done"
         /\ req[r].body.puzzleId \in PuzzleIds
         /\ Malformed(req[r].body.puzzleId, req[r].body.orderedEventIds))
        => (req[r].status = 400 /\ ~req[r].won)

\* C3: a submit by a player who had a row for the daily puzzle when the
\* request arrived writes no table, and a well-formed one is answered 409.
C3_DailyResubmitRejected ==
    \A r \in SubmitSlots :
        (/\ req[r].pc # "idle"
         /\ req[r].hadAttempt
         /\ IsDailyPuzzle(req[r].body.puzzleId))
        => /\ req[r].effects = {}
           /\ (req[r].pc = "done" /\ ~BodyInvalid(req[r].body)) => req[r].status = 409

\* C3 witness: a second submit for the daily puzzle was answered 409.
C3_Rejected ==
    \E r \in SubmitSlots :
        /\ req[r].pc = "done"
        /\ req[r].hadAttempt
        /\ IsDailyPuzzle(req[r].body.puzzleId)
        /\ req[r].status = 409
        /\ req[r].effects = {}

\* C4: of two submit requests of one player for one daily puzzle at most one
\* passes the daily check and inserts its game_results row.
C4_OneDailyInsert ==
    \A r1, r2 \in SubmitSlots :
        (/\ r1 # r2
         /\ req[r1].session = req[r2].session
         /\ req[r1].body.puzzleId = req[r2].body.puzzleId
         /\ IsDailyPuzzle(req[r1].body.puzzleId))
        => ~("attempt" \in req[r1].effects /\ "attempt" \in req[r2].effects)

\* C5: each player has at most one game_results row per daily puzzle.
C5_DailyAttemptUnique ==
    \A w \in Wallets, p \in PuzzleIds :
        IsDailyPuzzle(p) =>
            Cardinality({i \in 1..Len(gameResults) :
                            gameResults[i].userId = w /\ gameResults[i].puzzleId = p}) <= 1

\* C6: a delivered puzzle carries the fields id, title, category (isDaily for
\* today's puzzle) and events, and each event only id, text, date and url of
\* an event of the puzzle: no orderIndex, no sortDate.
C6_NoOrderFields ==
    delivery.status = 200 =>
        /\ DOMAIN delivery.body =
                IF delivery.route = "today"
                THEN {"id", "title", "category", "isDaily", "events"}
                ELSE {"id", "title", "category", "events"}
        /\ \A i \in 1..Len(delivery.body.events) :
              /\ DOMAIN delivery.body.events[i] = {"id", "text", "date", "url"}
              /\ \E e \in puzzleEvents :
                    /\ e.puzzleId = delivery.puzzleId
                    /\ delivery.body.events[i].id = e.id
                    /\ delivery.body.events[i].text = e.text
                    /\ delivery.body.events[i].date = e.date
                    /\ delivery.body.events[i].url = e.url

\* C6 witness: a puzzle of several events was delivered.
C6_Delivered ==
    /\ delivery.status = 200
    /\ Len(delivery.body.events) >= 2
    /\ delivery.body.id = delivery.puzzleId

DeliveredIds == [i \in 1..Len(delivery.body.events) |-> delivery.body.events[i].id]

\* C7: a delivered puzzle of at least two events never has its events in
\* the correct chronological order.
C7_NeverInCorrectOrder ==
    (delivery.status = 200 /\ Len(delivery.body.events) >= 2)
    => DeliveredIds # TrueOrder(delivery.puzzleId)

RECURSIVE Factorial(_)
Factorial(n) == IF n <= 1 THEN 1 ELSE n * Factorial(n - 1)

\* C8: the shuffle returns a permutation of its input and leaves the input
\* as it was; no other sequence of draws gives the same order, and the draw
\* sequences give N! orders in all: a bijection onto the permutations.
C8_ShuffleIsBijection ==
    delivery.status = 200 =>
        LET input == [i \in 1..EventCount(delivery.puzzleId) |->
                          EventAtRank(delivery.puzzleId, i - 1)]
            N == Len(input)
            output == shuffle(input, delivery.draws).copy
        IN  /\ DeliveredIds = [i \in 1..N |-> output[i].id]
            /\ Len(DeliveredIds) = N
            /\ \A e \in EventIdsOf(delivery.puzzleId) :
                  Cardinality({i \in 1..N : DeliveredIds[i] = e}) = 1
            /\ delivery.events = input
            /\ \A d \in DrawSeqs(N) :
                  shuffle(input, d).copy = output => d = delivery.draws
            /\ Cardinality(DrawSeqs(N)) = Factorial(N)
            /\ Cardinality({shuffle(input, d).copy : d \in DrawSeqs(N)}) = Factorial(N)

\* C8 witness: three or more events delivered in an order other than the stored one.
C8_Shuffled ==
    /\ delivery.status = 200
    /\ Len(delivery.body.events) >= 3
    /\ DeliveredIds # TrueOrder(delivery.puzzleId)

\* C9: calculateXp is 0 for a loss and, for a win, 100 plus 50 without
\* hints, plus 30 under 30000 ms, plus 20 per streak game for a streak above
\* 1, plus 75 for a daily puzzle.
C9_XpFormula ==
    xpCall.called =>
        xpCall.result =
            IF ~xpCall.input.won THEN 0
            ELSE 100
                 + (IF xpCall.input.hintsUsed = 0 THEN 50 ELSE 0)
                 + (IF xpCall.input.solveTimeMs < 30000 THEN 30 ELSE 0)
                 + (IF xpCall.input.currentStreak > 1
                    THEN 20 * xpCall.input.currentStreak ELSE 0)
                 + (IF xpCall.input.isDaily THEN 75 ELSE 0)

\* C9 witness: a win with every bonus, streak 3: 100 + 50 + 30 + 60 + 75.
C9_AllBonuses ==
    /\ xpCall.called
    /\ xpCall.input.won /\ xpCall.input.hintsUsed = 0 /\ xpCall.input.isDaily
    /\ xpCall.input.solveTimeMs < 30000 /\ xpCall.input.currentStreak = 3
    /\ xpCall.result = 315

LosingUpdate(r) ==
    /\ req[r].pc = "updateUser"
    /\ req'[r].pc = "done"
    /\ ~req[r].won

ChronoWon(w) ==
    LET rows == ResultsOfUser(w)
        rank(i) == Cardinality({j \in 1..Len(rows) :
                       \/ rows[j].playedAt < rows[i].playedAt
                       \/ (rows[j].playedAt = rows[i].playedAt /\ j <= i)})
    IN  [k \in 1..Len(rows) |-> rows[CHOOSE i \in 1..Len(rows) : rank(i) = k].won]

SetMax(S) == CHOOSE x \in S : \A y \in S : x >= y

LongestWinRun(h) ==
    SetMax({n \in 0..Len(h) :
               \/ n = 0
               \/ \E i \in 1..(Len(h) - n + 1) : \A k \in i..(i + n - 1) : h[k]})

TrailingWins(h) ==
    SetMax({n \in 0..Len(h) : \A k \in (Len(h) - n + 1)..Len(h) : h[k]})

\* C16: the best streak of the stats view and of the leaderboard is the
\* length of the longest run of wins of the chronological history, is not
\* below the best streak of the history without its newest attempt, and is
\* at least the current streak.
C16_BestStreakIsLongestRun ==
    /\ (stats.route = "me" /\ stats.status = 200) =>
          /\ stats.body.bestStreak = LongestWinRun(ChronoWon("w1"))
          /\ stats.body.bestStreak >= stats.body.currentStreak
          /\ stats.body.currentStreak = TrailingWins(ChronoWon("w1"))
          /\ Len(stats.allResults) > 0 =>
                stats.body.bestStreak >= computeStreaks(Tail(stats.allResults)).bestStreak
    /\ stats.route = "leaderboard" =>
          \A e \in stats.body.entries :
              /\ e.bestStreak = LongestWinRun(ChronoWon(e.walletAddress))
              /\ e.bestStreak >= e.currentStreak

\* C16 witness: two wins, a loss, a win: best streak 2, current streak 1.
C16_RunBrokenByLoss ==
    /\ stats.route = "me" /\ stats.status = 200
    /\ ChronoWon("w1") = <<TRUE, TRUE, FALSE, TRUE>>
    /\ stats.body.bestStreak = 2
    /\ stats.body.currentStreak = 1

\* a persisted submit that has run its reads and was answered 200
Answered(r) == req[r].pc = "done" /\ req[r].status = 200 /\ "xp" \in req[r].effects

\* scenario C: the first attempt of a player without achievements, a win on
\* a puzzle that is no daily, without hints, in 10000 ms
ScenarioC(r) ==
    /\ Answered(r)
    /\ req[r].won
    /\ req[r].totalGames = 1
    /\ req[r].alreadyUnlocked = {}
    /\ req[r].body.hintsUsed = 0
    /\ req[r].body.solveTimeMs = 10000
    /\ ~IsDailyPuzzle(req[r].body.puzzleId)

\* C11 as claimed: scenario C returns xpEarned = 230 and reports first_win.
C11_ScenarioC_230 ==
    \A r \in SubmitSlots :
        ScenarioC(r) => (req[r].xpEarned = 230 /\ "first_win" \in req[r].newAchievements)

\* C11 amended: scenario C has streak 1, unlocks first_win, no_hints and
\* speed_demon, and returns 100 + 50 + 30 + 50 + 75 + 150 = 455.
C11_ScenarioC_455 ==
    \A r \in SubmitSlots :
        ScenarioC(r) =>
            /\ req[r].currentStreak = 1
            /\ req[r].newAchievements = {"first_win", "no_hints", "speed_demon"}
            /\ req[r].xpEarned = 455

\* C11 witness: scenario C happened and was answered with 455 XP.
C11_ScenarioCAnswered ==
    \E r \in SubmitSlots : ScenarioC(r) /\ req[r].xpEarned = 455

\* C12: checkAchievements returns no id of alreadyUnlocked; no row of
\* user_achievements is ever removed; two requests of one player never
\* report the same achievement, so its reward is granted at most once; and
\* what a request reports is in the table and rewarded by its xpReward.
C12_UnlockOnce ==
    [][/\ userAchievements \subseteq userAchievements'
       /\ \A r \in SubmitSlots :
             /\ req'[r].newlyUnlockedIds \cap req'[r].alreadyUnlocked = {}
             /\ req'[r].achievementXp = RewardTotal(req'[r].newAchievements)
             /\ \A a \in req'[r].newAchievements :
                   <<req'[r].user.id, a>> \in userAchievements'
       /\ \A r1, r2 \in SubmitSlots :
             (r1 # r2 /\ req'[r1].user.id = req'[r2].user.id)
             => req'[r1].newAchievements \cap req'[r2].newAchievements = {}]_vars

\* C12 witness: a later submit of a player who holds first_win was answered
\* without reporting it again.
C12_SecondWinNoReunlock ==
    \E r \in SubmitSlots :
        /\ Answered(r) /\ req[r].won
        /\ "first_win" \in req[r].alreadyUnlocked
        /\ "first_win" \notin req[r].newAchievements
        /\ <<req[r].user.id, "first_win">> \in userAchievements

StreakAchievements == [k \in {3, 7, 15} |->
                          IF k = 3 THEN "streak_3" ELSE IF k = 7 THEN "streak_7" ELSE "streak_15"]

\* C13: a winning persisted submit whose current streak is at least k, for
\* k of 3, 7, 15, reports streak_k unless it read it as unlocked, and no two
\* submits of the player report the same streak_k.
C13_StreakUnlockReported ==
    /\ \A r \in SubmitSlots, k \in {3, 7, 15} :
          (/\ req[r].pc = "done"
           /\ "attempt" \in req[r].effects
           /\ req[r].won
           /\ req[r].currentStreak >= k
           /\ StreakAchievements[k] \notin req[r].alreadyUnlocked)
          => StreakAchievements[k] \in req[r].newAchievements
    /\ \A r1, r2 \in SubmitSlots, k \in {3, 7, 15} :
          r1 # r2 => ~(/\ StreakAchievements[k] \in req[r1].newAchievements
                       /\ StreakAchievements[k] \in req[r2].newAchievements)

WonDailies(userId) ==
    Cardinality({i \in 1..Len(gameResults) :
                    /\ gameResults[i].userId = userId
                    /\ gameResults[i].won
                    /\ IsDailyPuzzle(gameResults[i].puzzleId)})

\* C14: a submit reports daily_5 (daily_30) only when the player has at
\* least 5 (30) won attempts on daily puzzles.
C14_DailyCountsWins ==
    \A r \in SubmitSlots :
        /\ "daily_5" \in req[r].newAchievements => WonDailies(req[r].user.id) >= 5
        /\ "daily_30" \in req[r].newAchievements => WonDailies(req[r].user.id) >= 30

\* C15: the current streak a losing persisted submit computes is 0.
C15_LossResetsStreak ==
    \A r \in SubmitSlots :
        (/\ req[r].pc \in {"readPerfect", "readDailies", "readUnlocked",
                           "insertAchievements", "updateUser", "done"}
         /\ "attempt" \in req[r].effects
         /\ ~req[r].won)
        => req[r].currentStreak = 0

\* C17: no step lowers the stored XP of a player.
C17_XpMonotonic ==
    [][\A w \in DOMAIN users : users'[w].xp >= users[w].xp]_vars

\* C18: after a well-formed submit for an existing puzzle by a wallet for
\* which the handler found no users row, the row exists and the attempt is
\* recorded.
C18_LazyPlayerCreation ==
    \A r \in SubmitSlots :
        (/\ req[r].pc = "done"
         /\ req[r].status = 200
         /\ req[r].session \in Wallets
         /\ req[r].user.id = NoSession)
        => /\ req[r].session \in DOMAIN users
           /\ "attempt" \in req[r].effects
           /\ \E i \in 1..Len(gameResults) :
                 /\ gameResults[i].userId = req[r].session
                 /\ gameResults[i].puzzleId = req[r].body.puzzleId

\* C19: the step that serves a well-formed submit without a session for an
\* existing puzzle answers 200 with the positional score, the verdict and
\* the true order, xpEarned 0 and no achievements, and writes no table.
C19_GuestPlay ==
    [][\A r \in SubmitSlots :
          (/\ req[r].pc = "idle" /\ req'[r].pc # "idle"
           /\ req'[r].session = NoSession
           /\ ~BodyInvalid(req'[r].body)
           /\ req'[r].body.puzzleId \in PuzzleIds)
          => LET p == req'[r].body.puzzleId
                 candidate == req'[r].body.orderedEventIds
                 matches == {i \in 0..(EventCount(p) - 1) :
                                /\ i < Len(candidate)
                                /\ candidate[i + 1] = EventAtRank(p, i).id}
             IN  /\ req'[r].pc = "done" /\ req'[r].status = 200
                 /\ req'[r].score = Cardinality(matches)
                 /\ req'[r].won <=> (Cardinality(matches) = EventCount(p))
                 /\ req'[r].correctOrder = TrueOrder(p)
                 /\ req'[r].xpEarned = 0 /\ req'[r].newAchievements = {}
                 /\ req'[r].effects = {}
                 /\ store' = store]_vars

\* C19 witness: a guest lost a puzzle while the store held a player with
\* attempts, and was answered with score 1.
C19_GuestAnswered ==
    \E r \in SubmitSlots :
        /\ req[r].pc = "done" /\ req[r].status = 200
        /\ req[r].session = NoSession
        /\ req[r].score = 1 /\ ~req[r].won
        /\ req[r].correctOrder = TrueOrder(3)
        /\ Len(gameResults) > 0 /\ DOMAIN users # {}

C21_RetroactiveGames50 ==
    [][/\ (\E m \in MigrateSlots : mig[m].pc = "idle" /\ mig'[m].pc = "done")
          => /\ userAchievements' = userAchievements
             /\ \A u \in DOMAIN users : users'[u].xp = users[u].xp
       /\ \A r \in SubmitSlots :
             (/\ req'[r].pc = "done"
              /\ "attempt" \in req'[r].effects
              /\ req'[r].totalGames = 50
              /\ \E m \in MigrateSlots :
                    /\ mig'[m].pc = "done" /\ mig'[m].session = req'[r].session
                    /\ mig'[m].migrated = 50 - 1)
             => "games_50" \in req'[r].newAchievements]_vars

\* C23: every stored attempt has hintsUsed within 0..MAX_HINTS.
C23_HintsWithinMax ==
    \A i \in 1..Len(gameResults) : gameResults[i].hintsUsed \in 0..MAX_HINTS

\* C25: every stored attempt has a score within 0..N and is won exactly
\* when the score is N, N being the number of events of its puzzle.
C25_StoredScoreConsistent ==
    \A i \in 1..Len(gameResults) :
        LET N == EventCount(gameResults[i].puzzleId)
        IN  /\ gameResults[i].score \in 0..N
            /\ gameResults[i].won = (gameResults[i].score = N)

\* C26: a submit that answered 500 has left nothing in the store: neither
\* its attempt row, nor an unlock, nor an XP update.
C26_FailedSubmitLeavesNothing ==
    \A r \in SubmitSlots :
        (req[r].pc = "done" /\ req[r].status = 500) => req[r].effects = {}

RECURSIVE XpReturned(_, _)
\* the sum of the xpEarned values returned to `userId` by the submits in R
XpReturned(userId, R) ==
    IF R = {} THEN 0
    ELSE LET r == CHOOSE q \in R : TRUE
         IN  (IF req[r].session = userId /\ req[r].pc = "done" /\ req[r].status = 200
              THEN req[r].xpEarned ELSE 0)
             + XpReturned(userId, R \ {r})

\* C27: when no submit is in progress, the stored XP of a player is the sum
\* of the xpEarned values its submits returned (players start with 0 XP).
C27_XpConservation ==
    (\A r \in SubmitSlots : req[r].pc \in {"idle", "done"})
    => \A u \in DOMAIN users : users[u].xp = XpReturned(u, SubmitSlots)

\* the attempt rows that came from the guest result g
RowsOf(g) ==
    {i \in 1..Len(gameResults) :
        /\ gameResults[i].puzzleId = g.puzzleId
        /\ gameResults[i].playedAt = g.playedAt}

\* C22: every guest result written to local storage has at most one
\* attempt row on the server.
C22_MigratedAtMostOnce ==
    \A g \in client.recorded : Cardinality(RowsOf(g)) <= 1

\* C28: local storage loses guest results only in the step that handles a
\* 200 response of the migrate route, and every guest result ever written
\* is still in local storage, or has an attempt row, or is of a puzzle that
\* does not exist.
C28_NoGuestResultLost ==
    [][/\ (\E k \in 1..Len(client.guestStats.results) :
              \A j \in 1..Len(client'.guestStats.results) :
                  client'.guestStats.results[j] # client.guestStats.results[k])
          => (mig[1].pc = "done" /\ mig[1].status = 200)
       /\ \A g \in client'.recorded :
              \/ \E k \in 1..Len(client'.guestStats.results) :
                     client'.guestStats.results[k] = g
              \/ RowsOf(g)' # {}
              \/ g.puzzleId \notin PuzzleIds]_vars

\* the wins and losses of a result history, oldest first
WonOf(results) == [k \in 1..Len(results) |-> results[k].won]

\* C29: the counters of the guest statistics are the ones derived from
\* their results: their number, the number of wins, the trailing wins and
\* the longest run of wins, which is what computeStreaks gives for the
\* same history, newest first.
C29_GuestCountersDerived ==
    LET g == client.guestStats
        h == WonOf(g.results)
    IN  /\ g.gamesPlayed = Len(h)
        /\ g.wins = Cardinality({k \in 1..Len(h) : h[k]})
        /\ g.currentStreak = TrailingWins(h)
        /\ g.bestStreak = LongestWinRun(h)
        /\ g.currentStreak = computeStreaks(Reverse(h)).currentStreak
        /\ g.bestStreak = computeStreaks(Reverse(h)).bestStreak

\* C29 witness: two wins, then a loss: the best streak stays 2 and the
\* current streak is back to 0.
C29_StreakLostAfterTwoWins ==
    /\ WonOf(client.guestStats.results) = <<TRUE, TRUE, FALSE>>
    /\ client.guestStats.bestStreak = 2
    /\ client.guestStats.currentStreak = 0

\* the orderIndex values of the events rows of puzzle p, in table order
OrderIndexesOf(p) ==
    LET rows == SelectSeq(admin.events, LAMBDA e : e.puzzleId = p)
    IN  [k \in 1..Len(rows) |-> rows[k].orderIndex]

\* C24: the orderIndex values of the events of every puzzle are a
\* permutation of 0..N-1, N being the number of its events.
C24_OrderIndexPermutation ==
    \A p \in admin.puzzles :
        LET ix == OrderIndexesOf(p)
        IN  /\ \A k \in 1..Len(ix) : ix[k] \in 0..(Len(ix) - 1)
            /\ \A k, l \in 1..Len(ix) : ix[k] = ix[l] => k = l

\* C30: a shuffle of two or more events returns, and what the board shows
\* after it is a permutation of the argument that differs from it in some
\* position.
C30_BoardShuffleReturnsDifferent ==
    /\ [](board.pc = "returned" /\ Len(board.arr) >= 2
          => /\ Len(board.items) = Len(board.arr)
             /\ \A i \in 1..Len(board.arr) :
                   Cardinality({k \in 1..Len(board.items) :
                                   board.items[k] = board.arr[i]}) = 1
             /\ \E i \in 1..Len(board.arr) : board.items[i] # board.arr[i])
    /\ (board.pc = "shuffling" /\ Len(board.arr) >= 2) ~> (board.pc = "returned")

\* C30 witness: a shuffle of four events has returned after calling itself
\* again.
C30_ReturnedAfterReshuffle ==
    /\ board.pc = "returned"
    /\ board.reshuffled
    /\ Len(board.arr) = 4
    /\ board.items # board.arr

====
